---------------------------- MODULE Spec2Model ----------------------------
(***************************************************************************)
(* A model of the mind-map session of src/components/mindmap.py: the       *)
(* MindMap object (edges, nodes, conversation), the streamlit session key  *)
(* last_expanded, and the three handlers ask_for_initial_graph,            *)
(* ask_for_extended_graph and _delete_node, each taken as one step.        *)
(*                                                                         *)
(* A generator reply is a text.  It is modelled as the sequence of the     *)
(* directive-shaped pieces it holds, in text order: each piece is an       *)
(* operation word with one or two quoted arguments.  The two regular       *)
(* expressions of parse_and_include_edges select pieces from it.           *)
(***************************************************************************)
EXTENDS Naturals, Sequences, FiniteSets

VARIABLES
    edges,            \* self.edges: a list of tuples of labels
    nodes,            \* self.nodes: list(set(...)), kept as the set it lists
    has_conversation, \* whether the attribute self.conversation exists
    conversation,     \* self.conversation: a list of Message
    last_expanded,    \* st.session_state.last_expanded (None when absent)
    last,             \* the handler call just made and how it ended
    start_conversation, \* the module's list START_CONVERSATION, as it is now
    session,          \* the browser session whose st.session_state is served
    other             \* the mind map and hint in the other session's state

vars == <<edges, nodes, has_conversation, conversation, last_expanded, last,
          start_conversation, session, other>>

-----------------------------------------------------------------------------
(* Bounds and input sets *)

\* Longest generator reply, counted in directive-shaped pieces.
MaxReplyLen == 2

\* Most turns a transcript holds after the preamble.
MaxTurns == 4

Labels == {"A", "B", "C"}
Queries == {"q"}
Texts == {"t"}

\* Python's None, for an optional argument and for a missing session key.
None == "None"

Add2(a, b) == [op |-> "add", args |-> <<a, b>>]
Del2(a, b) == [op |-> "delete", args |-> <<a, b>>]
Del1(n) == [op |-> "delete", args |-> <<n>>]
\* add("X") has the shape of a directive and matches neither pattern.
Add1(n) == [op |-> "add", args |-> <<n>>]

\* The directives the Text Generator's replies are built from.  Replies
\* that edit the graph add two edges and delete one edge (written in the
\* other direction) and one node; replies that only grow it add an edge in
\* both directions, a second edge and a self-loop.
EditDirectives == { Add2("A", "B"), Add2("B", "C"), Del2("C", "B"), Del1("A") }
GrowDirectives == { Add2("A", "B"), Add2("B", "A"), Add2("B", "C"), Add2("A", "A") }

\* Every text of at most MaxReplyLen directives, and the texts that hold a
\* malformed directive, alone or before one directive.
RepliesOver(D) ==
    UNION { [1..n -> D] : n \in 0..MaxReplyLen }
        \cup { <<Add1("A")>> } \cup { <<Add1("A"), d>> : d \in D }

EditReplies == RepliesOver(EditDirectives)
GrowReplies == RepliesOver(GrowDirectives)

-----------------------------------------------------------------------------
(* Messages and the fixed preamble *)

Message(role, kind, arg, reply) ==
    [role |-> role, content |-> [kind |-> kind, arg |-> arg, reply |-> reply]]

START_CONVERSATION ==
    << Message("system", "system_prompt", "", <<>>),
       Message("user", "instruction_prompt", "", <<>>),
       Message("user", "example", "", <<>>),
       Message("assistant", "example", "", <<>>) >>

RestartMessage(query) == Message("user", "restart", query, <<>>)
ExpandMessage(selected_node) == Message("user", "expand", selected_node, <<>>)
TextMessage(text) == Message("user", "text", text, <<>>)
DeleteMessage_as_assistant(node) == Message("assistant", "delete", node, <<>>)
DeleteMessage(node) == Message("user", "delete", node, <<>>)

ask_mistral_reply_only(conv, reply) ==
    <<Message("assistant", "reply", "", reply)>>

\* ask_mistral when the call returns `reply`: the conversation with the
\* assistant's message appended (a new list).
ask_mistral(conv, reply) == Append(conv, Message("assistant", "reply", "", reply))

-----------------------------------------------------------------------------
(* parse_and_include_edges: the directive parser *)

\* pattern1: (add|delete)\("..",\s*".."\), the two-argument form.
pattern1(piece) == piece.op \in {"add", "delete"} /\ Len(piece.args) = 2

\* pattern2: (delete)\(".."\), the one-argument form.
pattern2(piece) == piece.op = "delete" /\ Len(piece.args) = 1

\* re.findall(pattern1, output) + re.findall(pattern2, output): every
\* two-argument match in text order, then every one-argument match.
matches(output) == SelectSeq(output, pattern1) \o SelectSeq(output, pattern2)

\* The branch of the classification loop taken for two-argument matches.
is_edge_directive(match) ==
    match.op = "add" \/ (match.op = "delete" /\ Len(match.args) = 2)

ArgsOf(ms) == [i \in 1..Len(ms) |-> ms[i].args]

new_edges_with_loops(ms) ==
    ArgsOf(SelectSeq(ms, LAMBDA m : is_edge_directive(m) /\ m.op = "add"))

\* new_edges: the (a, b) of every add match with a != b, in match order.
new_edges(ms) ==
    ArgsOf(SelectSeq(ms, LAMBDA m : /\ is_edge_directive(m)
                                    /\ m.args[1] # m.args[2]
                                    /\ m.op = "add"))

frozenset(t) == {t[i] : i \in 1..Len(t)}

\* remove_edges: frozenset([a, b]) of every two-argument delete with a != b.
remove_edges(ms) ==
    { frozenset(ms[i].args) : i \in { j \in 1..Len(ms) :
                                        /\ is_edge_directive(ms[j])
                                        /\ ms[j].args[1] # ms[j].args[2]
                                        /\ ms[j].op # "add" } }

\* remove_nodes: the argument of every other match (a one-argument delete).
remove_nodes(ms) ==
    { ms[i].args[1] : i \in { j \in 1..Len(ms) : ~is_edge_directive(ms[j]) } }

-----------------------------------------------------------------------------
(* parse_and_include_edges: the reconciliation *)

candidates_extend_always(current, new, replace) == current \o new

candidates_replace_always(current, new, replace) == new

\* edges = new_edges if replace else self.edges + new_edges
candidates(current, new, replace) == IF replace THEN new ELSE current \o new

RECURSIVE added_ignoring_node_removals(_, _, _, _)
added_ignoring_node_removals(cands, k, rm_nodes, rm_edges) ==
    IF k = 0 THEN {}
    ELSE LET prev == added_ignoring_node_removals(cands, k - 1, rm_nodes, rm_edges)
             ns == frozenset(cands[k])
         IN  IF ns \in prev \/ ns \in rm_edges THEN prev ELSE prev \cup {ns}

RECURSIVE added_ignoring_edge_removals(_, _, _, _)
added_ignoring_edge_removals(cands, k, rm_nodes, rm_edges) ==
    IF k = 0 THEN {}
    ELSE LET prev == added_ignoring_edge_removals(cands, k - 1, rm_nodes, rm_edges)
             ns == frozenset(cands[k])
         IN  IF ns \in prev \/ ns \cap rm_nodes # {} THEN prev ELSE prev \cup {ns}

\* The set `added` after the loop has walked the first k candidates.
RECURSIVE added(_, _, _, _)
added(cands, k, rm_nodes, rm_edges) ==
    IF k = 0 THEN {}
    ELSE LET prev == added(cands, k - 1, rm_nodes, rm_edges)
             ns == frozenset(cands[k])
         IN  IF ns \in prev \/ ns \cap rm_nodes # {} \/ ns \in rm_edges
             THEN prev
             ELSE prev \cup {ns}

\* tuple(a) for a frozenset a: its elements in the set's iteration order,
\* which the hashes of the labels decide; any order can come out.
tuples(a) == { t \in [1..Cardinality(a) -> a] : frozenset(t) = a }

\* list([tuple(a) for a in added]): one tuple per member, in the iteration
\* order of the set `added`; any order can come out.
lists(S) ==
    { l \in [1..Cardinality(S) -> UNION { tuples(a) : a \in S }] :
        { frozenset(l[i]) : i \in 1..Cardinality(S) } = S }

RECURSIVE surviving(_, _, _)
surviving(cands, rm_nodes, rm_edges) ==
    IF cands = <<>> THEN <<>>
    ELSE LET e == Head(cands)
             rest == surviving(Tail(cands), rm_nodes, rm_edges)
         IN  IF frozenset(e) \cap rm_nodes # {} \/ frozenset(e) \in rm_edges
             THEN rest
             ELSE <<e>> \o rest

parse_and_include_edges_without_dedup(current, output, replace) ==
    LET ms == matches(output)
    IN  { surviving(candidates(current, new_edges(ms), replace),
                    remove_nodes(ms), remove_edges(ms)) }

\* The values self.edges can hold after parse_and_include_edges(output,
\* replace) on a graph whose edges are `current`.
parse_and_include_edges(current, output, replace) ==
    LET ms == matches(output)
        cands == candidates(current, new_edges(ms), replace)
    IN  lists(added(cands, Len(cands), remove_nodes(ms), remove_edges(ms)))

NodesOfFirstEndpoints(es) == { es[i][1] : i \in 1..Len(es) }

\* set([n for e in self.edges for n in e])
NodesOf(es) == UNION { frozenset(es[i]) : i \in 1..Len(es) }

-----------------------------------------------------------------------------
(* The session *)

\* The record of a handler call: the handler, its arguments, whether it
\* called the Text Generator, and how it ended.
Call(op, node, text, called, outcome) ==
    [op |-> op, node |-> node, text |-> text, called |-> called,
     outcome |-> outcome]

\* MindMap.load() on a session without a mind map: cls(), which sets edges
\* and nodes and no conversation; the session has no last_expanded key.
Init ==
    /\ edges = <<>>
    /\ nodes = {}
    /\ has_conversation = FALSE
    /\ conversation = <<>>
    /\ last_expanded = None
    /\ last = Call("load", None, None, FALSE, "returned")
    /\ start_conversation = START_CONVERSATION
    /\ session = 1
    /\ other = [edges |-> <<>>, nodes |-> {}, has_conversation |-> FALSE,
                conversation |-> <<>>, last_expanded |-> None]

conversation_on_error_kept(local) == local

\* self.conversation when ask_mistral raises: the tuple assignment never
\* runs, so the attribute keeps its value and the local list is dropped.
conversation_on_error(local) == conversation

\* The room left in the transcript, which bounds the model: a call that
\* asks the Text Generator is followed while the transcript has room for a
\* request and a reply, a deletion while it has room for its turn.
Room(n) == Len(conversation) + n <= Len(START_CONVERSATION) + MaxTurns

\* A session is followed up to its first call that raises: what a raising
\* call leaves behind is checked on the step that raises.
Open == last.outcome = "returned"

start_after_concat_in_place(local) == local

\* START_CONVERSATION after `START_CONVERSATION + [...]`: the sum is a new
\* list and the module's list is not written.
start_after_concat(local) == start_conversation

ask_for_initial_graph(query, replies) ==
    LET local == Append(start_conversation, RestartMessage(query))
    IN  /\ Room(2)
        /\ start_conversation' = start_after_concat(local)
        /\ \/ \E output \in replies :
                /\ conversation' = ask_mistral(local, output)
                /\ has_conversation' = TRUE
                /\ edges' \in parse_and_include_edges(edges, output, TRUE)
                /\ nodes' = NodesOf(edges')
                /\ last' = Call("ask_for_initial_graph", None, query, TRUE, "returned")
                /\ UNCHANGED last_expanded
           \/ /\ conversation' = conversation_on_error(local)
              /\ last' = Call("ask_for_initial_graph", None, query, TRUE,
                              "generator_error")
              /\ UNCHANGED <<edges, nodes, has_conversation, last_expanded>>

ask_for_extended_graph(selected_node, text, replies) ==
    LET call(called, outcome) ==
            Call("ask_for_extended_graph", selected_node, text, called, outcome)
        message == IF selected_node # None THEN ExpandMessage(selected_node)
                                           ELSE TextMessage(text)
        local == Append(conversation, message)
        hint == IF selected_node # None THEN selected_node ELSE last_expanded
    IN  \/ /\ selected_node = None /\ text = None
           /\ last' = call(FALSE, "returned")
           /\ UNCHANGED <<edges, nodes, has_conversation, conversation, last_expanded>>
        \/ /\ ~(selected_node = None /\ text = None)
           /\ ~has_conversation
           /\ last' = call(FALSE, "attribute_error")
           /\ UNCHANGED <<edges, nodes, has_conversation, conversation, last_expanded>>
        \/ /\ ~(selected_node = None /\ text = None)
           /\ has_conversation
           /\ Room(2)
           /\ last_expanded' = hint
           /\ \/ /\ \E output \in replies :
                      /\ conversation' = ask_mistral(local, output)
                      /\ edges' \in parse_and_include_edges(edges, output, FALSE)
                      /\ nodes' = NodesOf(edges')
                 /\ last' = call(TRUE, "returned")
                 /\ UNCHANGED has_conversation
              \/ /\ conversation' = conversation_on_error(local)
                 /\ last' = call(TRUE, "generator_error")
                 /\ UNCHANGED <<edges, nodes, has_conversation>>

_delete_node(node) ==
    /\ edges' = SelectSeq(edges, LAMBDA e : node \notin frozenset(e))
    /\ nodes' = NodesOf(edges')
    /\ \/ /\ has_conversation
          /\ Room(1)
          /\ conversation' = Append(conversation, DeleteMessage(node))
          /\ last' = Call("_delete_node", node, None, FALSE, "returned")
       \/ /\ ~has_conversation
          /\ last' = Call("_delete_node", node, None, FALSE, "attribute_error")
          /\ UNCHANGED conversation
    /\ UNCHANGED <<has_conversation, last_expanded>>

\* The handlers read and write the MindMap of the session they are called
\* in (MindMap.load, save) and that session's last_expanded key.
InitialGenerate(replies) ==
    /\ Open
    /\ \E query \in Queries : ask_for_initial_graph(query, replies)
    /\ UNCHANGED <<session, other>>

Expand(replies) ==
    /\ Open
    /\ \E selected_node \in Labels \cup {None}, text \in Texts \cup {None} :
          ask_for_extended_graph(selected_node, text, replies)
    /\ UNCHANGED <<start_conversation, session, other>>

DeleteNode ==
    /\ Open
    /\ \E node \in Labels : _delete_node(node)
    /\ UNCHANGED <<start_conversation, session, other>>

\* The next request comes from the other browser session: st.session_state
\* is then that session's, and MindMap.load() returns its mind map.
OtherSession ==
    /\ Open
    /\ session' = 3 - session
    /\ other' = [edges |-> edges, nodes |-> nodes,
                 has_conversation |-> has_conversation,
                 conversation |-> conversation, last_expanded |-> last_expanded]
    /\ edges' = other.edges
    /\ nodes' = other.nodes
    /\ has_conversation' = other.has_conversation
    /\ conversation' = other.conversation
    /\ last_expanded' = other.last_expanded
    /\ last' = Call("load", None, None, FALSE, "returned")
    /\ UNCHANGED start_conversation

\* Sessions whose replies add and delete.
Next == InitialGenerate(EditReplies) \/ Expand(EditReplies) \/ DeleteNode

Spec == Init /\ [][Next]_vars

\* Sessions whose replies only add: repeated, reversed and self-loop adds.
NextGrow == InitialGenerate(GrowReplies) \/ Expand(GrowReplies) \/ DeleteNode

SpecGrow == Init /\ [][NextGrow]_vars

\* Two sessions side by side, with short replies.
TwoReplies == { <<>>, <<Add2("A", "B")>>, <<Del1("A")>> }

NextTwo ==
    InitialGenerate(TwoReplies) \/ Expand(TwoReplies) \/ DeleteNode \/ OtherSession

SpecTwo == Init /\ [][NextTwo]_vars

-----------------------------------------------------------------------------
(* What the properties read *)

\* The endpoints of an edge, and the unordered pairs of an edge list.
Ends(e) == { e[k] : k \in 1..Len(e) }
PairSet(es) == { Ends(es[i]) : i \in 1..Len(es) }

\* The text of the reply the call just made received.
LastReply == conversation[Len(conversation)].content.reply

Pieces(r) == { r[i] : i \in 1..Len(r) }

\* Read off a reply's text: the pairs its add directives ask for, the pairs
\* its two-argument deletes name, the labels its one-argument deletes name.
AddPairs(r) ==
    { {d.args[1], d.args[2]} :
        d \in { x \in Pieces(r) : /\ x.op = "add" /\ Len(x.args) = 2
                                  /\ x.args[1] # x.args[2] } }
EdgeDeletes(r) ==
    { {d.args[1], d.args[2]} :
        d \in { x \in Pieces(r) : x.op = "delete" /\ Len(x.args) = 2 } }
NodeDeletes(r) ==
    { d.args[1] : d \in { x \in Pieces(r) : x.op = "delete" /\ Len(x.args) = 1 } }
ZeroDirectives(r) ==
    \A d \in Pieces(r) : ~(Len(d.args) = 2 /\ d.op \in {"add", "delete"})
                         /\ ~(Len(d.args) = 1 /\ d.op = "delete")

Returned(op) == last.op = op /\ last.outcome = "returned"
GotReply == last.called /\ last.outcome = "returned"

-----------------------------------------------------------------------------
(* C1 *)

\* C1: in every reachable state every edge of the graph is a pair of two
\* different labels, whatever the replies held, add("A","A") included.
C1_NoSelfLoops ==
    \A i \in 1..Len(edges) : Len(edges[i]) = 2 /\ edges[i][1] # edges[i][2]

\* A reply that held add("A","A") beside another add was taken in, and the
\* graph has edges.
C1_Witness ==
    /\ GotReply
    /\ Add2("A", "A") \in Pieces(LastReply)
    /\ Len(LastReply) = 2
    /\ edges # <<>>

(* C2 *)

\* C2: in every reachable state no two edges of the graph have the same
\* unordered pair of endpoints.
C2_NoDuplicateEdges ==
    \A i, j \in 1..Len(edges) :
        i # j => Ends(edges[i]) # Ends(edges[j])

\* An expansion whose reply asked for A-B in both directions returned, and
\* the graph holds A-B and another edge.
C2_Witness ==
    /\ Returned("ask_for_extended_graph")
    /\ last.called
    /\ LastReply = <<Add2("A", "B"), Add2("B", "A")>>
    /\ {"A", "B"} \in PairSet(edges)
    /\ Len(edges) = 2

(* C3 *)

\* What removing node n leaves, from edge list `before` to `after`: n is in
\* no edge and not a node, and every edge of `before` that does not touch n
\* and whose pair is not in `spared` is still an edge of `after`.
NodeGone(n, before, after, after_nodes, spared) ==
    /\ n \notin after_nodes
    /\ \A p \in PairSet(after) : n \notin p
    /\ \A p \in PairSet(before) : n \notin p /\ p \notin spared => p \in PairSet(after)

\* The pairs of `before` that a reply's delete directives take away.
Deleted(r, before) ==
    { p \in PairSet(before) : p \in EdgeDeletes(r) \/ p \cap NodeDeletes(r) # {} }

\* C3 as stated: after _delete_node(n), and after an expansion whose reply
\* holds delete("n"), n is in no edge and not a node, and every prior edge
\* not incident to n is still present.
C3_Original ==
    [][ /\ last'.op = "_delete_node" =>
            NodeGone(last'.node, edges, edges', nodes', {})
        /\ (last'.op = "ask_for_extended_graph" /\ last'.called
                /\ last'.outcome = "returned") =>
            \A n \in NodeDeletes(LastReply') :
                NodeGone(n, edges, edges', nodes', {}) ]_vars

\* C3, amended: the same, where of the prior edges not incident to n those
\* stay that no other delete directive of the same reply removes; the
\* handler _delete_node keeps every other edge as it was stored.
C3_NodeDeletion ==
    [][ /\ last'.op = "_delete_node" =>
            /\ NodeGone(last'.node, edges, edges', nodes', {})
            /\ \A i \in 1..Len(edges) :
                  last'.node \notin Ends(edges[i]) =>
                      \E j \in 1..Len(edges') : edges'[j] = edges[i]
        /\ (last'.op = "ask_for_extended_graph" /\ last'.called
                /\ last'.outcome = "returned") =>
            \A n \in NodeDeletes(LastReply') :
                NodeGone(n, edges, edges', nodes', Deleted(LastReply', edges)) ]_vars

\* An expansion whose reply was add("A","B") delete("A") returned: A is gone
\* with the edge the reply added, and B-C is still there.
C3_Witness ==
    /\ Returned("ask_for_extended_graph")
    /\ last.called
    /\ LastReply = <<Add2("A", "B"), Del1("A")>>
    /\ PairSet(edges) = {{"B", "C"}}
    /\ "A" \notin nodes

(* C4 *)

\* C4: in every reachable state the node set is exactly the set of labels
\* that are an endpoint of some edge.
C4_NodesAreEndpoints ==
    nodes = { n \in Labels : \E i \in 1..Len(edges) :
                                \E k \in 1..Len(edges[i]) : edges[i][k] = n }

\* _delete_node took a node out of a graph that keeps an edge.
C4_Witness ==
    /\ Returned("_delete_node")
    /\ last.node = "A"
    /\ PairSet(edges) = {{"B", "C"}}
    /\ nodes = {"B", "C"}

(* C5 *)

\* C5: after a reply that holds a two-argument delete of a and b has been
\* taken in, by an initial generation or an expansion, no edge of the graph
\* has the unordered pair {a, b}.
C5_DeleteWins ==
    GotReply => \A p \in EdgeDeletes(LastReply) : p \notin PairSet(edges)

\* An expansion whose reply was add("B","C") delete("C","B"), the add first
\* and the delete in the other direction, returned with A-B kept.
C5_Witness ==
    /\ Returned("ask_for_extended_graph")
    /\ last.called
    /\ LastReply = <<Add2("B", "C"), Del2("C", "B")>>
    /\ PairSet(edges) = {{"A", "B"}}

(* C6 *)

\* C6: a reply without delete directives leaves, as a set of unordered
\* pairs, exactly the pairs its adds ask for when it is taken in with
\* replace (initial generation), and exactly those together with the pairs
\* of the prior edges when it is taken in without (expansion).
C6_ReplaceOrExtend ==
    [][ (last'.called /\ last'.outcome = "returned"
            /\ EdgeDeletes(LastReply') = {} /\ NodeDeletes(LastReply') = {}) =>
          PairSet(edges') =
              (IF last'.op = "ask_for_initial_graph" THEN {} ELSE PairSet(edges))
                  \cup AddPairs(LastReply') ]_vars

\* An expansion added a new pair to a graph that keeps a pair the reply did
\* not name.
C6_Witness ==
    /\ Returned("ask_for_extended_graph")
    /\ last.called
    /\ AddPairs(LastReply) = {{"B", "C"}}
    /\ PairSet(edges) = {{"A", "B"}, {"B", "C"}}

(* C7 *)

\* C7: taking in, without replace, a reply that holds no directive at all
\* (no adds, no edge removals, no node removals) returns the edge list it
\* started from: the same edges in the same order, each with its endpoints
\* in the same order.
C7_Idempotent ==
    [][ (last'.op = "ask_for_extended_graph" /\ last'.called
            /\ last'.outcome = "returned" /\ ZeroDirectives(LastReply')) =>
          edges' = edges ]_vars

(* C8 *)

\* C8: a call whose Text Generator call fails leaves edges, nodes and the
\* transcript exactly as they were, and the graph and the transcript change
\* only in a call that returns, which assigns both.
C8_FailureCommitsNothing ==
    [][ /\ last'.outcome = "generator_error" =>
            UNCHANGED <<edges, nodes, has_conversation, conversation>>
        /\ (edges' # edges \/ nodes' # nodes \/ conversation' # conversation
                \/ has_conversation' # has_conversation) =>
            last'.outcome = "returned" ]_vars

\* The Text Generator failed an expansion of a session that has a graph
\* and a transcript.
C8_Witness ==
    /\ last.op = "ask_for_extended_graph"
    /\ last.outcome = "generator_error"
    /\ last.called
    /\ edges # <<>>
    /\ Len(conversation) > Len(START_CONVERSATION)

(* C9 *)

\* C9 as stated: a reply with zero parseable directives leaves the edge set
\* and the node set as they were, in an initial generation and in an
\* expansion alike.
C9_Original ==
    [][ (last'.called /\ last'.outcome = "returned" /\ ZeroDirectives(LastReply')) =>
          PairSet(edges') = PairSet(edges) /\ nodes' = nodes ]_vars

\* C9, amended: a reply with zero parseable directives leaves the set of
\* unordered edge pairs and the node set as they were in an expansion, and
\* leaves the graph empty in an initial generation.
C9_ZeroDirectives ==
    [][ (last'.called /\ last'.outcome = "returned" /\ ZeroDirectives(LastReply')) =>
          IF last'.op = "ask_for_initial_graph"
          THEN edges' = <<>> /\ nodes' = {}
          ELSE PairSet(edges') = PairSet(edges) /\ nodes' = nodes ]_vars

\* An expansion whose reply held only a malformed directive returned, and
\* the graph has edges.
C9_Witness ==
    /\ Returned("ask_for_extended_graph")
    /\ last.called
    /\ LastReply = <<Add1("A")>>
    /\ Len(edges) = 2

(* C10 *)

\* C10: in a session without edges, a call of ask_for_extended_graph with
\* an argument, or of _delete_node, changes neither edges, nodes, transcript
\* nor the last-expanded hint, and does not call the Text Generator.
C10_EmptyRejects ==
    [][ (edges = <<>>
            /\ \/ last'.op = "_delete_node"
               \/ /\ last'.op = "ask_for_extended_graph"
                  /\ ~(last'.node = None /\ last'.text = None)) =>
          /\ ~last'.called
          /\ UNCHANGED <<edges, nodes, has_conversation, conversation,
                         last_expanded>> ]_vars

-----------------------------------------------------------------------------
(* C11 *)
\* C11: a call of ask_for_extended_graph with neither a node nor a text, or
\* with both of them, makes no generator call and changes neither the graph
\* nor the transcript nor the last-expanded hint.
C11_ExactlyOneArgument ==
    [][ (/\ last'.op = "ask_for_extended_graph"
         /\ (last'.node = None) = (last'.text = None)) =>
           /\ ~last'.called
           /\ UNCHANGED <<edges, nodes, has_conversation, conversation,
                          last_expanded>> ]_vars

-----------------------------------------------------------------------------
(* C13 *)
IsPrefix(s, t) == Len(s) <= Len(t) /\ SubSeq(t, 1, Len(s)) = s

\* C13: with two sessions served in any interleaving, a handler called in one
\* session leaves the other session's edges, nodes, transcript and hint as
\* they were, no handler changes the module's START_CONVERSATION, and every
\* transcript of either session begins with that unchanged preamble.
C13_SessionsIsolated ==
    [][ /\ start_conversation' = START_CONVERSATION
        /\ session' = session => other' = other
        /\ has_conversation' => IsPrefix(START_CONVERSATION, conversation')
        /\ other'.has_conversation =>
              IsPrefix(START_CONVERSATION, other'.conversation) ]_vars

\* One session has deleted the only node pair of its own graph while the
\* other session holds a graph and a transcript of its own.
C13_Witness ==
    /\ session = 2
    /\ Returned("_delete_node")
    /\ edges = <<>>
    /\ other.edges # <<>>
    /\ other.has_conversation
    /\ Len(conversation) > Len(other.conversation)

-----------------------------------------------------------------------------
(* C14 *)
\* C14: across every call of ask_for_extended_graph and of _delete_node,
\* however it ends, the transcript before the call is a prefix of the
\* transcript after it; the turns already there are never dropped or changed.
C14_TranscriptGrows ==
    [][ (/\ session' = session
         /\ last'.op \in {"ask_for_extended_graph", "_delete_node"}) =>
           IsPrefix(conversation, conversation') ]_vars

\* An expansion has appended its request and the reply after the two turns of
\* the initial graph, which are still in place.
C14_Witness ==
    /\ Returned("ask_for_extended_graph")
    /\ last.called
    /\ Len(conversation) = Len(START_CONVERSATION) + 4
    /\ conversation[Len(START_CONVERSATION) + 1].content.kind = "restart"
    /\ conversation[Len(conversation) - 1].content.kind = "expand"

-----------------------------------------------------------------------------
(* C15 *)
\* The ordered pairs a reply's add directives ask for, in the reply's order.
AddsInOrder(r) ==
    LET wanted == SelectSeq(r, LAMBDA d : /\ d.op = "add" /\ Len(d.args) = 2
                                          /\ d.args[1] # d.args[2])
    IN  [i \in 1..Len(wanted) |-> wanted[i].args]

\* The candidates in their order, each pair once and in the orientation of
\* its first occurrence, without those the reply's deletes remove.
FirstAdmitted(cands, r) ==
    LET kept[k \in 0..Len(cands)] ==
            IF k = 0 THEN <<>>
            ELSE IF \/ Ends(cands[k]) \in EdgeDeletes(r)
                    \/ Ends(cands[k]) \cap NodeDeletes(r) # {}
                    \/ Ends(cands[k]) \in PairSet(kept[k - 1])
                 THEN kept[k - 1]
                 ELSE Append(kept[k - 1], cands[k])
    IN  kept[Len(cands)]

\* C15: after a reply is reconciled the edge list holds the surviving edges in
\* the order first admitted (the current edges first, then the reply's adds),
\* each edge in the orientation of its first occurrence.
C15_OrderStable ==
    [][ (last'.called /\ last'.outcome = "returned") =>
           edges' = FirstAdmitted(
                       (IF last'.op = "ask_for_initial_graph" THEN <<>> ELSE edges)
                           \o AddsInOrder(LastReply'),
                       LastReply') ]_vars

-----------------------------------------------------------------------------
(* C16 *)
\* The pairs that a reply, taken alone, leaves: those its adds ask for and
\* its deletes do not remove.
Survivors(r) ==
    { p \in AddPairs(r) : p \notin EdgeDeletes(r) /\ p \cap NodeDeletes(r) = {} }

\* C16: after ask_for_initial_graph(query) returns, from whatever state, the
\* transcript is START_CONVERSATION followed by the restart turn for query and
\* the assistant's reply, and the graph is what that reply alone leaves: each
\* surviving pair once, the nodes their endpoints; the graph is non-empty
\* exactly when a pair survived.
C16_InitialGenerate ==
    [][ (last'.op = "ask_for_initial_graph" /\ last'.outcome = "returned") =>
           /\ last'.called
           /\ conversation' =
                 START_CONVERSATION \o
                     << RestartMessage(last'.text),
                        Message("assistant", "reply", "", LastReply') >>
           /\ PairSet(edges') = Survivors(LastReply')
           /\ Len(edges') = Cardinality(Survivors(LastReply'))
           /\ nodes' = UNION Survivors(LastReply')
           /\ (edges' # <<>>) = (Survivors(LastReply') # {}) ]_vars

\* The initial graph came from a reply that adds B-C and deletes node A.
C16_Witness ==
    /\ Returned("ask_for_initial_graph")
    /\ LastReply = <<Add2("B", "C"), Del1("A")>>
    /\ PairSet(edges) = {{"B", "C"}}
    /\ Len(conversation) = Len(START_CONVERSATION) + 2

-----------------------------------------------------------------------------
(* C17 *)
\* An expansion by node or by text (one of the two given) has just returned
\* with a reply, in a session whose graph was not empty.
ExpandedPopulated ==
    /\ edges # <<>>
    /\ last'.op = "ask_for_extended_graph"
    /\ (last'.node = None) # (last'.text = None)
    /\ last'.called
    /\ last'.outcome = "returned"

\* C17: after an expansion that returns in a session with a non-empty graph
\* the graph is still non-empty, whatever the reply, a reply of only delete
\* directives included.
C17_Original == [][ ExpandedPopulated => edges' # <<>> ]_vars

\* C17, amended: after such an expansion the graph is empty exactly when the
\* reply's delete directives remove every edge the graph held and every edge
\* the reply adds; so a reply without delete directives leaves it non-empty.
C17_PopulatedUnlessDeleted ==
    [][ ExpandedPopulated =>
           (edges' = <<>>) =
              (\A p \in PairSet(edges) \cup AddPairs(LastReply') :
                  \/ p \in EdgeDeletes(LastReply')
                  \/ p \cap NodeDeletes(LastReply') # {}) ]_vars

\* The graph A-B of the initial reply was expanded from node B and the reply,
\* a single delete of node A, left no edge.
C17_Witness ==
    /\ Returned("ask_for_extended_graph")
    /\ last.node = "B" /\ last.text = None
    /\ LastReply = <<Del1("A")>>
    /\ conversation[Len(START_CONVERSATION) + 2].content.reply = <<Add2("A", "B")>>
    /\ Len(conversation) = Len(START_CONVERSATION) + 4
    /\ edges = <<>>

-----------------------------------------------------------------------------
(* C18 *)
\* C18: _delete_node(node) in a session with a non-empty graph makes no
\* generator call and appends the one user turn delete("node") at the end of
\* the transcript, every earlier turn staying as it was; the graph is empty
\* afterwards exactly when every edge had node as an endpoint.
C18_DeleteNode ==
    [][ (edges # <<>> /\ last'.op = "_delete_node") =>
           /\ ~last'.called
           /\ last'.outcome = "returned"
           /\ Len(conversation') = Len(conversation) + 1
           /\ SubSeq(conversation', 1, Len(conversation)) = conversation
           /\ conversation'[Len(conversation')] =
                 [role |-> "user",
                  content |-> [kind |-> "delete", arg |-> last'.node,
                               reply |-> <<>>]]
           /\ (edges' = <<>>) =
                 (\A i \in 1..Len(edges) : last'.node \in Ends(edges[i])) ]_vars

\* Node A was deleted from the graph A-B, B-C: the edge B-C is left and the
\* transcript ends with the delete turn.
C18_Witness ==
    /\ Returned("_delete_node")
    /\ last.node = "A"
    /\ conversation[Len(START_CONVERSATION) + 2].content.reply =
          <<Add2("A", "B"), Add2("B", "C")>>
    /\ Len(conversation) = Len(START_CONVERSATION) + 3
    /\ conversation[Len(conversation)].content.kind = "delete"
    /\ PairSet(edges) = {{"B", "C"}}

-----------------------------------------------------------------------------
(* C19 *)
\* An expansion by node or by text has just ended with the generator call
\* raising.
ExpandFailed ==
    /\ last'.op = "ask_for_extended_graph"
    /\ last'.called
    /\ last'.outcome = "generator_error"

\* The user turn that ask_for_extended_graph builds for its arguments.
RequestTurn(node, text) ==
    [role |-> "user",
     content |-> IF node # None
                 THEN [kind |-> "expand", arg |-> node, reply |-> <<>>]
                 ELSE [kind |-> "text", arg |-> text, reply |-> <<>>]]

\* C19: when the generator call of an expansion raises, the user turn of that
\* request stays at the end of the transcript and the graph is unchanged.
C19_Original ==
    [][ ExpandFailed =>
           /\ conversation' =
                 Append(conversation, RequestTurn(last'.node, last'.text))
           /\ UNCHANGED <<edges, nodes>> ]_vars

\* C19, amended: when the generator call of an expansion raises, the user turn
\* built for that request is not in the transcript afterwards, which is
\* exactly the transcript before the request, and the graph is unchanged.
C19_RequestTurnNotKept ==
    [][ ExpandFailed =>
           /\ conversation' = conversation
           /\ UNCHANGED <<edges, nodes>> ]_vars

\* An expansion from node B of the graph A-B, B-C has failed: the transcript
\* still ends with the assistant's initial reply.
C19_Witness ==
    /\ last.op = "ask_for_extended_graph"
    /\ last.outcome = "generator_error"
    /\ last.node = "B" /\ last.text = None
    /\ Len(conversation) = Len(START_CONVERSATION) + 2
    /\ LastReply = <<Add2("A", "B"), Add2("B", "C")>>
    /\ nodes = {"A", "B", "C"}

-----------------------------------------------------------------------------
(* C20 *)
\* C20: the last-expanded hint is node after an expansion from node (no text
\* given) that returns, and every other call leaves it as it was: an expansion
\* from text, _delete_node, ask_for_initial_graph, and an expansion from node
\* whose generator call raises.
C20_LastExpanded ==
    [][ (/\ last'.op \in {"ask_for_initial_graph", "ask_for_extended_graph",
                          "_delete_node"}
         /\ ~(/\ last'.op = "ask_for_extended_graph"
              /\ last'.node # None /\ last'.text # None)) =>
           IF /\ last'.op = "ask_for_extended_graph"
              /\ last'.node # None
              /\ last'.called
              /\ last'.outcome = "returned"
           THEN last_expanded' = last'.node
           ELSE last_expanded' = last_expanded ]_vars

-----------------------------------------------------------------------------
(* C21 *)
\* The pairs asked for by the add directives of the replies received since the
\* most recent ask_for_initial_graph that returned: the transcript is rebuilt
\* from START_CONVERSATION by that call, so these are its assistant turns
\* after the preamble.
RequestedSinceRestart(conv) ==
    UNION { AddPairs(conv[i].content.reply) :
              i \in { k \in (Len(START_CONVERSATION) + 1)..Len(conv) :
                        conv[k].role = "assistant" } }

\* C21: in every state each edge of the graph is a pair that an add directive
\* asked for in a reply received at or after the most recent
\* ask_for_initial_graph that returned, so no edge from before it is left
\* unless added again; _delete_node and a reply without add directives bring
\* in no pair the graph did not hold.
C21_EdgesWereRequested ==
    [][ /\ PairSet(edges') \subseteq RequestedSinceRestart(conversation')
        /\ last'.op = "_delete_node" => PairSet(edges') \subseteq PairSet(edges)
        /\ (/\ last'.op = "ask_for_extended_graph"
            /\ last'.called /\ last'.outcome = "returned"
            /\ AddPairs(LastReply') = {}) =>
              PairSet(edges') \subseteq PairSet(edges) ]_vars

\* The initial reply asked for A-B; the expansion's reply asked for B-C and
\* deleted node A: the only edge left is the one the later reply asked for.
C21_Witness ==
    /\ Returned("ask_for_extended_graph")
    /\ last.called
    /\ conversation[Len(START_CONVERSATION) + 2].content.reply = <<Add2("A", "B")>>
    /\ LastReply = <<Add2("B", "C"), Del1("A")>>
    /\ PairSet(edges) = {{"B", "C"}}

=============================================================================
